---------------------------- MODULE Spec2Model ----------------------------
(***************************************************************************)
(* A model of the OGI-vs-federated simulation (src/src/ogi_simulation.py)  *)
(* and of the medical knowledge-sharing example                            *)
(* (src/examples/medical_diagnosis.py).                                    *)
(*                                                                         *)
(* Numbers.  Python floats are modelled as fixed-point integers:           *)
(*   - framework strengths, coherence and drift: units of 1/10000          *)
(*     (0.5 = 5000, 0.95 = 9500);                                          *)
(*   - success rates: units of 1/100 (0.75 = 75), so that                  *)
(*     0.02 * success_rate is exactly 2 * rate framework units;            *)
(*   - communication volumes: whole megabytes.                             *)
(* Every call of the random module whose value reaches the state is an     *)
(* input of the action that makes it, drawn from a small set of samples of *)
(* the call's range.  The draws that end only in values no code reads      *)
(* (the hypothesis confidence, insights_gained, local_loss,                *)
(* samples_trained) are left out with the fields that hold them.           *)
(*                                                                         *)
(* Ledger entries carry the fields epoch, change_type and validation.  The *)
(* timestamp (wall clock) and the hash (Python's salted hash of a string)  *)
(* are opaque tokens that no code reads; they are left out.                *)
(***************************************************************************)
EXTENDS Integers, Sequences, FiniteSets, TLC

VARIABLES
    pc,             \* control position of run_full_simulation / run_scenario
    scenario,       \* index into self.scenarios of the scenario being run
    epoch,          \* loop variable of run_scenario
    idx,            \* position of the inner "for agent in ..." loop (1-based)
    ogi_agents,     \* run_scenario's list of OGIAgent objects
    fl_agents,      \* run_scenario's list of FederatedAgent objects
    fl_comm_total,  \* run_scenario's local accumulator
    ogi_comm,       \* run_scenario's local
    results,        \* SimulationRunner.results
    upload_total,   \* observation: sum of the communication_mb of the
                    \* upload_to_server responses of the cycle in progress
    sync_calls,     \* observation: one entry per ogi_supervised_sync call
    num_agents,     \* SimulationRunner.num_agents
    num_epochs,     \* SimulationRunner.num_epochs
    draws,          \* observation: calls of the random module made since
                    \* random.seed(42), the position in the seeded stream
    analysis,       \* observation: what generate_analysis selected and
                    \* computed for its printed summary
    agent,          \* a single OGIAgent driven directly (no runner)
    calls,          \* observation: number of develop_epoch calls on agent
    hospitals,      \* run_medical_diagnosis_simulation's list of hospitals
    med_pc,         \* control position of run_medical_diagnosis_simulation
    share_calls,    \* the share_medical_knowledge calls made so far, each with
                    \* the loop index and the hospitals' progress at the call
    med_epoch,      \* its loop variable "epoch"
    med_idx,        \* position of "for hospital in hospitals" (1-based)
    med_left,       \* iterations left of "for _ in range(num_cases)"
    fn_agent,       \* an OGIAgent whose methods are called one at a time
    fn_fl,          \* a FederatedAgent whose methods are called one at a time
    fn_call,        \* observation: the latest such call, its draws and result
    pub_pc,         \* control position of the publishing script's main
    pub_args,       \* its parsed command line
    pub_env,        \* the .env file it loads its credentials from
    publisher,      \* its OGIContentPublisher, None before construction
    medium_url,     \* main's variable of that name
    pub_log         \* observation: the API and script calls made, in order

vars == <<pc, scenario, epoch, idx, ogi_agents, fl_agents, fl_comm_total,
          ogi_comm, results, upload_total, sync_calls, num_agents,
          num_epochs, draws, analysis, agent, calls,
          hospitals, med_pc, med_epoch, med_idx, med_left, share_calls, fn_agent,
          fn_fl, fn_call, pub_pc, pub_args, pub_env, publisher, medium_url, pub_log>>

runnerVars == <<pc, scenario, epoch, idx, ogi_agents, fl_agents,
                fl_comm_total, ogi_comm, results, upload_total, sync_calls,
                num_agents, num_epochs, draws, analysis>>

agentVars == <<agent, calls>>

medVars == <<hospitals, med_pc, med_epoch, med_idx, med_left, share_calls>>

fnVars == <<fn_agent, fn_fl, fn_call>>

pubVars == <<pub_pc, pub_args, pub_env, publisher, medium_url, pub_log>>

-----------------------------------------------------------------------------
(* Bounds of the model (the program's configuration, scaled down).         *)

\* self.num_agents (5 in the program): agents per variant
NumAgents == 2

\* self.num_epochs (20 in the program): cycles per scenario
NumEpochs == 6

\* develop_epoch calls made on the directly driven agent (24 passing cycles
\* on one framework are what it takes to reach the 0.95 clamp from 0.5)
MaxCalls == 24

\* failed validations explored per agent list (draws with
\* success_rate <= 0.75)
MaxFailed == 1

\* hospitals of the medical example (5 in the program)
NumHospitals == 3

\* "for epoch in range(15)" of the medical example
MedEpochs == 11

\* incorrect diagnoses explored per run of the medical example
MaxIncorrect == 2

\* develop_epoch calls observed one at a time on fn_agent
MaxDevelop == 4

\* cycles developed by the OGI agents whose metrics are observed (the drift
\* base is 0 from cycle 20 on; the runner computes metrics at cycles 1..20)
MaxCycle == 21

\* cycles trained by the federated agents whose metrics are observed
MaxTrain == 3

-----------------------------------------------------------------------------
(* Program constants.                                                      *)

\* 0.5, the strength a framework is created with
InitialStrength == 5000

\* 0.95, the clamp of a framework strength
MaxStrength == 9500

\* 0.75, the validation threshold on the success rate
PassThreshold == 75

\* "epoch % 5 == 0"
SyncPeriod == 5

\* result.get('communication_mb', 45)
DefaultCommMb == 45

\* 0.65, the base coherence of an OGI agent
BaseCci == 6500

\* 0.60 and 0.95, the clamp of the OGI coherence
OgiCciMin == 6000

OgiCciMax == 9500

\* 0.40 and 0.70, the clamp of the federated coherence
FlCciMin == 4000

FlCciMax == 7000

\* 19 in 'df[df["epoch"] == 19]  # Last epoch'
FinalEpochFilter == 19

\* 0.10 and 0.005 in "max(0, 0.10 - 0.005 * epoch)"
BaseDrift == 1000

DriftDecay == 50

Min(a, b) == IF a < b THEN a ELSE b

Max(a, b) == IF a > b THEN a ELSE b

RECURSIVE SumSeq(_)
SumSeq(s) == IF s = <<>> THEN 0 ELSE Head(s) + SumSeq(Tail(s))

\* what np.mean returns for an empty list
NaN == "nan"

\* np.mean of a list, truncated to the fixed-point unit
Mean(s) == IF s = <<>> THEN NaN ELSE SumSeq(s) \div Len(s)

\* round(200 * ln(n)) for n = 1..32: 0.02 * math.log(n) in coherence units
Ln200 == <<0, 139, 220, 277, 322, 358, 389, 416, 439, 461, 480, 497, 513,
           528, 542, 555, 567, 578, 589, 599, 609, 618, 627, 636, 644, 652,
           659, 666, 673, 680, 687, 693>>

-----------------------------------------------------------------------------
(* Samples of the random draws.                                            *)

\* self.scenarios
Scenarios == <<"medical_diagnosis", "disaster_response", "autonomous_labs">>

\* random.choice([...]) in generate_hypothesis
Targets == {"pattern_recognition", "causal_inference", "uncertainty_handling"}

\* random.uniform(0.7, 0.95) in test_hypothesis: one failing (the threshold
\* itself), one passing
SuccessRates == {75, 95}

\* the targets drawn for the agents the runner develops (the single-agent
\* specification draws from all of Targets)
RunnerTargets == {"pattern_recognition"}

\* random.gauss(45, 8) in upload_to_server
UploadSamples == {37, 53}

\* random.gauss(15, 3) in ogi_supervised_sync
SyncSamples == {12, 15}

\* random.gauss(0, 0.02) / gauss(0, 0.01) in the OGI metrics, as drawn by
\* the runner
MetricNoise == {0}

\* random.gauss(0.55, 0.03) and random.gauss(0.25, 0.05), as drawn by the
\* runner
FlCciSamples == {5500}

FlDriftSamples == {2500}

\* random.gauss(0, 0.02) in OGIAgent.calculate_cci, observed call by call:
\* small values and values far enough out for both clamps to act
CciNoiseSamples == {-700, -200, 0, 200, 3000}

\* random.gauss(0, 0.01) in OGIAgent.calculate_mutation_drift
DriftNoiseSamples == {-300, -100, 0, 100}

\* random.gauss(0.55, 0.03) in FederatedAgent.calculate_cci
FlCciCallSamples == {3800, 5500, 7200}

-----------------------------------------------------------------------------
(* OGIAgent                                                                *)

EmptyDict == [k \in {} |-> 0]

\* OGIAgent.__init__
NewOGIAgent == [epoch |-> 0, reasoning_frameworks |-> EmptyDict,
                ledger |-> <<>>]

\* generate_hypothesis: the target is the draw of random.choice
GenerateHypothesis(a, target) ==
    [type |-> "framework_revision", target |-> target,
     proposed_change |-> a.epoch]

\* test_hypothesis: rate is the draw of random.uniform(0.7, 0.95)
TestHypothesis(hypothesis, rate) ==
    [hypothesis |-> hypothesis, success_rate |-> rate,
     validation_passed |-> (rate > PassThreshold)]

\* integrate_learning with the final min(0.95, ...) left out
IntegrateLearningNoClamp(fw, result) ==
    IF result.validation_passed
    THEN LET key == result.hypothesis.target
             fw1 == IF key \in DOMAIN fw
                    THEN fw
                    ELSE [k \in DOMAIN fw \cup {key} |->
                             IF k = key THEN InitialStrength ELSE fw[k]]
         IN  [fw1 EXCEPT ![key] = @ + 2 * result.success_rate]
    ELSE fw

\* integrate_learning without the "if result['validation_passed']" test
IntegrateLearningUnvalidated(fw, result) ==
    LET key == result.hypothesis.target
        fw1 == IF key \in DOMAIN fw
               THEN fw
               ELSE [k \in DOMAIN fw \cup {key} |->
                        IF k = key THEN InitialStrength ELSE fw[k]]
        fw2 == [fw1 EXCEPT ![key] = @ + 2 * result.success_rate]
    IN  [fw2 EXCEPT ![key] = Min(MaxStrength, @)]

\* an integrate_learning that also takes 0.02 * success_rate off the target
\* framework when the validation failed
IntegrateLearningPenalise(fw, result) ==
    LET key == result.hypothesis.target
        fw1 == IF key \in DOMAIN fw
               THEN fw
               ELSE [k \in DOMAIN fw \cup {key} |->
                        IF k = key THEN InitialStrength ELSE fw[k]]
    IN  IF result.validation_passed
        THEN [fw1 EXCEPT ![key] = Min(MaxStrength, @ + 2 * result.success_rate)]
        ELSE [fw1 EXCEPT ![key] = @ - 2 * result.success_rate]

\* integrate_learning, on the framework mapping
IntegrateLearning(fw, result) ==
    IF result.validation_passed
    THEN LET key == result.hypothesis.target
             fw1 == IF key \in DOMAIN fw
                    THEN fw
                    ELSE [k \in DOMAIN fw \cup {key} |->
                             IF k = key THEN InitialStrength ELSE fw[k]]
             fw2 == [fw1 EXCEPT ![key] = @ + 2 * result.success_rate]
         IN  [fw2 EXCEPT ![key] = Min(MaxStrength, @)]
    ELSE fw

\* record_to_ledger stamping the entry with the 1-based cycle number
RecordToLedgerOneBased(a, result) ==
    Append(a.ledger, [epoch |-> a.epoch + 1,
                      change_type |-> result.hypothesis.type,
                      validation |-> result.validation_passed])

\* record_to_ledger, on the ledger
RecordToLedger(a, result) ==
    Append(a.ledger, [epoch |-> a.epoch,
                      change_type |-> result.hypothesis.type,
                      validation |-> result.validation_passed])

\* develop_epoch counting only the cycles that passed validation
DevelopEpochCountPassed(a, target, rate) ==
    LET result == TestHypothesis(GenerateHypothesis(a, target), rate)
        a1 == [a EXCEPT !.reasoning_frameworks = IntegrateLearning(@, result)]
        a2 == [a1 EXCEPT !.ledger = RecordToLedger(a1, result)]
    IN  [a2 EXCEPT !.epoch = IF result.validation_passed THEN @ + 1 ELSE @]

\* develop_epoch without its closing "self.epoch += 1"
DevelopEpochKeepCounter(a, target, rate) ==
    LET result == TestHypothesis(GenerateHypothesis(a, target), rate)
        a1 == [a EXCEPT !.reasoning_frameworks = IntegrateLearning(@, result)]
    IN  [a1 EXCEPT !.ledger = RecordToLedger(a1, result)]

\* develop_epoch: the agent after one call with the given draws
DevelopEpoch(a, target, rate) ==
    LET result == TestHypothesis(GenerateHypothesis(a, target), rate)
        a1 == [a EXCEPT !.reasoning_frameworks = IntegrateLearning(@, result)]
        a2 == [a1 EXCEPT !.ledger = RecordToLedger(a1, result)]
    IN  [a2 EXCEPT !.epoch = @ + 1]

\* the calls of the random module that one develop_epoch makes, in order:
\* generate_hypothesis (target, confidence), then test_hypothesis
\* (success_rate, insights_gained)
DevelopEpochDraws == <<"choice", "uniform", "uniform", "randint">>

\* a calculate_cci that draws its noise only once the agent holds a framework
OgiCalculateCciDrawsLearned(a) ==
    IF a.reasoning_frameworks = EmptyDict THEN <<>> ELSE <<"gauss">>

\* the calls of the random module that calculate_cci makes
OgiCalculateCciDraws(a) == IF a.epoch = 0 THEN <<>> ELSE <<"gauss">>

\* the call of the random module that calculate_mutation_drift makes
OgiCalculateMutationDriftDraws == <<"gauss">>

\* calculate_cci returning the noisy value as it is
OgiCalculateCciUnclamped(a, noise) ==
    IF a.epoch = 0
    THEN BaseCci
    ELSE BaseCci + Ln200[a.epoch + 1] + noise

\* OGIAgent.calculate_cci: noise is the draw of random.gauss(0, 0.02),
\* made only when epoch # 0
OgiCalculateCci(a, noise) ==
    IF a.epoch = 0
    THEN BaseCci
    ELSE Min(OgiCciMax, Max(OgiCciMin, BaseCci + Ln200[a.epoch + 1] + noise))

\* calculate_mutation_drift with the max(0, ...) taken after the noise
OgiCalculateMutationDriftClamped(a, noise) ==
    Max(0, BaseDrift - DriftDecay * a.epoch + noise)

\* OGIAgent.calculate_mutation_drift
OgiCalculateMutationDrift(a, noise) ==
    Max(0, BaseDrift - DriftDecay * a.epoch) + noise

-----------------------------------------------------------------------------
(* FederatedAgent                                                          *)

\* FederatedAgent.__init__
NewFederatedAgent == [epoch |-> 0, global_model_version |-> 0]

\* local_training: the keys of the record train_epoch returns
LocalTraining(a) == [model_updates |-> a.epoch]

\* upload_to_server: comm is the draw of random.gauss(45, 8)
UploadToServer(a, comm) ==
    [global_model_version |-> a.global_model_version + 1,
     aggregated_weights |-> a.epoch,
     communication_mb |-> comm]

\* download_global_model that keeps the version it has
DownloadGlobalModelKeep(a, server_response) == a

\* download_global_model
DownloadGlobalModel(a, server_response) ==
    [a EXCEPT !.global_model_version = server_response.global_model_version]

\* train_epoch without its "self.epoch += 1"
TrainEpochKeepEpoch(a, comm) ==
    DownloadGlobalModel(a, UploadToServer(a, comm))

\* train_epoch: the agent after one call
TrainEpoch(a, comm) ==
    LET a1 == DownloadGlobalModel(a, UploadToServer(a, comm))
    IN  [a1 EXCEPT !.epoch = @ + 1]

\* the calls of the random module that one train_epoch makes, in order:
\* local_training (local_loss, samples_trained), then upload_to_server
TrainEpochDraws == <<"uniform", "randint", "gauss">>

\* result.get('communication_mb', 45) on the record train_epoch returns,
\* which is local_training's record
ResultCommMb(local_update) ==
    IF "communication_mb" \in DOMAIN local_update
    THEN local_update.communication_mb
    ELSE DefaultCommMb

\* calculate_cci returning its sample as it is
FlCalculateCciUnclamped(sample) == sample

\* FederatedAgent.calculate_cci: sample is the draw of gauss(0.55, 0.03);
\* calculate_mutation_drift returns its gauss(0.25, 0.05) draw as it is
FlCalculateCci(sample) == Max(FlCciMin, Min(FlCciMax, sample))

\* the call of the random module that each of the two federated metrics makes
FlCalculateCciDraws == <<"gauss">>

FlCalculateMutationDriftDraws == <<"gauss">>


-----------------------------------------------------------------------------
(* SimulationRunner                                                        *)

\* ogi_supervised_sync that compacts every ledger to its latest entry
OgiSupervisedSyncCompacting(agents, comm) ==
    [agents |-> [i \in 1..Len(agents) |->
                    [agents[i] EXCEPT !.ledger =
                        IF @ = <<>> THEN @ ELSE <<@[Len(@)]>>]],
     comm_cost |-> comm]

\* ogi_supervised_sync: comm is the draw of random.gauss(15, 3).  The call
\* reads len(agent.reasoning_frameworks) of every agent into a local that is
\* never used, writes no agent, and returns the sample.
OgiSupervisedSync(agents, comm) ==
    [agents |-> agents, comm_cost |-> comm]

\* the call of the random module that ogi_supervised_sync makes
OgiSupervisedSyncDraws == <<"gauss">>

\* the sync test on the 1-based cycle number
SyncDueOneBased(e) == (e + 1) % SyncPeriod = 0

\* "if epoch % 5 == 0"
SyncDue(e) == e % SyncPeriod = 0

\* the record with the 1-based cycle number in its epoch field
MetricRecordOneBased(s, e, ogis, fls, cciNoise, flCci, driftNoise, flDrift, ogiComm, flComm) ==
    [scenario |-> s,
     epoch |-> e + 1,
     cci_ogi |-> Mean([i \in 1..Len(ogis) |-> OgiCalculateCci(ogis[i], cciNoise[i])]),
     cci_flower |-> Mean([i \in 1..Len(fls) |-> FlCalculateCci(flCci[i])]),
     mutation_drift_ogi |->
         Mean([i \in 1..Len(ogis) |-> OgiCalculateMutationDrift(ogis[i], driftNoise[i])]),
     mutation_drift_flower |-> Mean([i \in 1..Len(fls) |-> flDrift[i]]),
     comm_ogi_mb |-> ogiComm,
     comm_flower_mb |-> flComm,
     ogi_agents |-> Len(ogis),
     fl_agents |-> Len(fls)]

\* the record run_scenario appends to self.results for one cycle; every
\* calculate_cci / calculate_mutation_drift call makes its own draw, given
\* here per agent
MetricRecord(s, e, ogis, fls, cciNoise, flCci, driftNoise, flDrift, ogiComm, flComm) ==
    [scenario |-> s,
     epoch |-> e,
     cci_ogi |-> Mean([i \in 1..Len(ogis) |-> OgiCalculateCci(ogis[i], cciNoise[i])]),
     cci_flower |-> Mean([i \in 1..Len(fls) |-> FlCalculateCci(flCci[i])]),
     mutation_drift_ogi |->
         Mean([i \in 1..Len(ogis) |-> OgiCalculateMutationDrift(ogis[i], driftNoise[i])]),
     mutation_drift_flower |-> Mean([i \in 1..Len(fls) |-> flDrift[i]]),
     comm_ogi_mb |-> ogiComm,
     comm_flower_mb |-> flComm,
     ogi_agents |-> Len(ogis),
     fl_agents |-> Len(fls)]

\* a results list that keeps the latest record of each scenario only
AppendResultLatestOnly(rs, record) ==
    Append(SelectSeq(rs, LAMBDA r : r.scenario # record.scenario), record)

\* "self.results.append({...})"
AppendResult(rs, record) == Append(rs, record)

\* the calls of the random module made by the four list comprehensions of
\* the metric computation, counted
MetricDraws(ogis, fls) ==
    SumSeq([i \in 1..Len(ogis) |-> Len(OgiCalculateCciDraws(ogis[i]))])
    + Len(fls) * Len(FlCalculateCciDraws)
    + Len(ogis) * Len(OgiCalculateMutationDriftDraws)
    + Len(fls) * Len(FlCalculateMutationDriftDraws)

\* number of failed validations recorded in a ledger
RECURSIVE FailedIn(_)
FailedIn(ledger) ==
    IF ledger = <<>> THEN 0
    ELSE (IF Head(ledger).validation THEN 0 ELSE 1) + FailedIn(Tail(ledger))

FailedSoFar(agents) == SumSeq([i \in 1..Len(agents) |-> FailedIn(agents[i].ledger)])

\* the draws explored: any passing rate, and a failing one while the budget
\* of failed validations lasts
RateAllowed(rate, failed) == rate > PassThreshold \/ failed < MaxFailed

\* where a cycle of run_scenario begins: at the first develop_epoch, or at
\* the sync test when the agent lists are empty and both loops fall through
CycleEntry == IF num_agents > 0 THEN "ogi" ELSE "sync"

\* run_scenario returns: the next scenario of run_full_simulation's loop, or
\* its end
AfterScenario ==
    IF scenario < Len(Scenarios)
    THEN scenario' = scenario + 1 /\ pc' = "start"
    ELSE scenario' = scenario /\ pc' = "analysis"

\* a run_scenario that builds the agent lists once and reuses them for the
\* scenarios that follow
StartScenarioKeepAgents ==
    /\ pc = "start"
    /\ ogi_agents' = IF ogi_agents = <<>>
                     THEN [i \in 1..num_agents |-> NewOGIAgent]
                     ELSE ogi_agents
    /\ fl_agents' = IF fl_agents = <<>>
                    THEN [i \in 1..num_agents |-> NewFederatedAgent]
                    ELSE fl_agents
    /\ epoch' = 0
    /\ idx' = 1
    /\ fl_comm_total' = 0
    /\ ogi_comm' = 0
    /\ upload_total' = 0
    /\ IF num_epochs > 0
       THEN pc' = CycleEntry /\ scenario' = scenario
       ELSE AfterScenario
    /\ UNCHANGED <<results, sync_calls, num_agents, num_epochs, analysis, draws,
                   agentVars, pubVars, medVars, fnVars>>

\* run_full_simulation, "for scenario in self.scenarios", and the head of
\* run_scenario: fresh agent lists, then the first cycle
StartScenario ==
    /\ pc = "start"
    /\ ogi_agents' = [i \in 1..num_agents |-> NewOGIAgent]
    /\ fl_agents' = [i \in 1..num_agents |-> NewFederatedAgent]
    /\ epoch' = 0
    /\ idx' = 1
    /\ fl_comm_total' = 0
    /\ ogi_comm' = 0
    /\ upload_total' = 0
    /\ IF num_epochs > 0
       THEN pc' = CycleEntry /\ scenario' = scenario
       ELSE AfterScenario
    /\ UNCHANGED <<results, sync_calls, num_agents, num_epochs, analysis, draws,
                   agentVars, pubVars, medVars, fnVars>>

\* the develop_epoch iteration as it would be if reasoning_frameworks were one
\* dictionary shared by all OGI agents instead of one per instance
DevelopStepSharedFrameworks ==
    /\ pc = "ogi"
    /\ \E target \in RunnerTargets, rate \in SuccessRates :
          /\ RateAllowed(rate, FailedSoFar(ogi_agents))
          /\ LET developed == DevelopEpoch(ogi_agents[idx], target, rate)
             IN  ogi_agents' =
                    [i \in 1..Len(ogi_agents) |->
                        IF i = idx THEN developed
                        ELSE [ogi_agents[i] EXCEPT !.reasoning_frameworks =
                                                      developed.reasoning_frameworks]]
    /\ draws' = draws + Len(DevelopEpochDraws)
    /\ IF idx < num_agents
       THEN /\ idx' = idx + 1
            /\ pc' = "ogi"
            /\ UNCHANGED <<fl_comm_total, upload_total>>
       ELSE /\ idx' = 1
            /\ pc' = "fl"
            /\ fl_comm_total' = 0
            /\ UNCHANGED upload_total
    /\ UNCHANGED <<scenario, epoch, fl_agents, ogi_comm, results, sync_calls,
                   num_agents, num_epochs, analysis, agentVars,
                   pubVars, medVars, fnVars>>

\* one iteration of "for agent in ogi_agents: agent.develop_epoch()"; after
\* the last one, "fl_comm_total = 0" opens the federated loop
DevelopStep ==
    /\ pc = "ogi"
    /\ \E target \in RunnerTargets, rate \in SuccessRates :
          /\ RateAllowed(rate, FailedSoFar(ogi_agents))
          /\ ogi_agents' = [ogi_agents EXCEPT ![idx] = DevelopEpoch(@, target, rate)]
    /\ draws' = draws + Len(DevelopEpochDraws)
    /\ IF idx < num_agents
       THEN /\ idx' = idx + 1
            /\ pc' = "ogi"
            /\ UNCHANGED <<fl_comm_total, upload_total>>
       ELSE /\ idx' = 1
            /\ pc' = "fl"
            /\ fl_comm_total' = 0
            /\ UNCHANGED upload_total
    /\ UNCHANGED <<scenario, epoch, fl_agents, ogi_comm, results, sync_calls,
                   num_agents, num_epochs, analysis, agentVars,
                   pubVars, medVars, fnVars>>

\* one iteration of "for agent in fl_agents": train_epoch, then
\* "fl_comm_total += result.get('communication_mb', 45)"
TrainStep ==
    /\ pc = "fl"
    /\ \E comm \in UploadSamples :
          /\ fl_agents' = [fl_agents EXCEPT ![idx] = TrainEpoch(@, comm)]
          /\ upload_total' =
                upload_total + UploadToServer(fl_agents[idx], comm).communication_mb
    /\ fl_comm_total' = fl_comm_total + ResultCommMb(LocalTraining(fl_agents[idx]))
    /\ draws' = draws + Len(TrainEpochDraws)
    /\ IF idx < num_agents
       THEN idx' = idx + 1 /\ pc' = "fl"
       ELSE idx' = 1 /\ pc' = "sync"
    /\ UNCHANGED <<scenario, epoch, ogi_agents, ogi_comm, results, sync_calls,
                   num_agents, num_epochs, analysis, agentVars,
                   pubVars, medVars, fnVars>>

\* "ogi_comm = 0; if epoch % 5 == 0: ogi_comm = self.ogi_supervised_sync(...)"
SyncStep ==
    /\ pc = "sync"
    /\ SyncDue(epoch)
    /\ \E comm \in SyncSamples :
          LET r == OgiSupervisedSync(ogi_agents, comm)
          IN  /\ ogi_agents' = r.agents
              /\ ogi_comm' = r.comm_cost
              /\ sync_calls' = Append(sync_calls,
                     [scenario |-> Scenarios[scenario], epoch |-> epoch,
                      comm |-> r.comm_cost])
    /\ draws' = draws + Len(OgiSupervisedSyncDraws)
    /\ pc' = "metrics"
    /\ UNCHANGED <<scenario, epoch, idx, fl_agents, fl_comm_total, results,
                   upload_total, num_agents, num_epochs, analysis, agentVars,
                   pubVars, medVars,
                   fnVars>>

SkipSyncStep ==
    /\ pc = "sync"
    /\ ~SyncDue(epoch)
    /\ ogi_comm' = 0
    /\ pc' = "metrics"
    /\ UNCHANGED <<scenario, epoch, idx, ogi_agents, fl_agents, fl_comm_total,
                   results, upload_total, sync_calls, num_agents, num_epochs, analysis,
                   draws, agentVars, pubVars, medVars, fnVars>>

\* the four averages and "self.results.append({...})", then the next cycle,
\* the next scenario, or the end of run_full_simulation's loop
RecordStep ==
    /\ pc = "metrics"
    /\ \E cciNoise \in [1..num_agents -> MetricNoise],
          flCci \in [1..num_agents -> FlCciSamples],
          driftNoise \in [1..num_agents -> MetricNoise],
          flDrift \in [1..num_agents -> FlDriftSamples] :
          results' = AppendResult(results,
              MetricRecord(Scenarios[scenario], epoch, ogi_agents, fl_agents,
                           cciNoise, flCci, driftNoise, flDrift, ogi_comm,
                           fl_comm_total))
    /\ draws' = draws + MetricDraws(ogi_agents, fl_agents)
    /\ IF epoch + 1 < num_epochs
       THEN /\ epoch' = epoch + 1
            /\ pc' = CycleEntry
            /\ scenario' = scenario
       ELSE /\ epoch' = epoch
            /\ AfterScenario
    /\ idx' = 1
    /\ upload_total' = 0
    /\ UNCHANGED <<ogi_agents, fl_agents, fl_comm_total, ogi_comm, sync_calls,
                   num_agents, num_epochs, analysis, agentVars,
                   pubVars, medVars, fnVars>>

\* the summary statistics of generate_analysis, not computed yet
NoAnalysis == [final_epoch |-> <<>>, computed |-> FALSE]

\* Series.mean() of one column of the selected records: NaN entries are
\* skipped and the mean of nothing is NaN.  The means of a record are NaN
\* exactly when the agent count named by `count` is 0 in it.
SeriesMean(rs, column, count) ==
    LET valid == SelectSeq(rs, LAMBDA r : r[count] > 0)
    IN  Mean([i \in 1..Len(valid) |-> valid[i][column]])

\* generate_analysis: the records selected by 'df[df["epoch"] == 19]', the
\* two means taken over them and the two communication totals.  The charts
\* and the two printed percentages derived from these values are left out.
\* With no record at all the DataFrame has no column and df["scenario"]
\* raises KeyError.
GenerateAnalysis(rs) ==
    IF rs = <<>>
    THEN [final_epoch |-> <<>>, computed |-> FALSE, error |-> "KeyError"]
    ELSE LET final_epoch == SelectSeq(rs, LAMBDA r : r.epoch = FinalEpochFilter)
         IN  [final_epoch |-> final_epoch,
              computed |-> TRUE,
              avg_ogi_cci |-> SeriesMean(final_epoch, "cci_ogi", "ogi_agents"),
              avg_fl_cci |-> SeriesMean(final_epoch, "cci_flower", "fl_agents"),
              total_ogi_comm |->
                  SumSeq([i \in 1..Len(rs) |-> rs[i].comm_ogi_mb]),
              total_fl_comm |->
                  SumSeq([i \in 1..Len(rs) |-> rs[i].comm_flower_mb])]

\* the end of run_full_simulation: save_results (files only) and
\* generate_analysis
AnalysisStep ==
    /\ pc = "analysis"
    /\ analysis' = GenerateAnalysis(results)
    /\ pc' = "done"
    /\ UNCHANGED <<scenario, epoch, idx, ogi_agents, fl_agents, fl_comm_total,
                   ogi_comm, results, upload_total, sync_calls, num_agents,
                   num_epochs, draws, agentVars, pubVars, medVars, fnVars>>

\* the runner before run_full_simulation's first scenario, its two counts
\* apart
RunnerStart ==
    /\ pc = "start"
    /\ scenario = 1
    /\ epoch = 0
    /\ idx = 1
    /\ ogi_agents = <<>>
    /\ fl_agents = <<>>
    /\ fl_comm_total = 0
    /\ ogi_comm = 0
    /\ results = <<>>
    /\ upload_total = 0
    /\ sync_calls = <<>>
    /\ draws = 0
    /\ analysis = NoAnalysis

\* SimulationRunner.__init__: the counts it assigns (5 and 20 in the program)
RunnerInit ==
    /\ RunnerStart
    /\ num_agents = NumAgents
    /\ num_epochs = NumEpochs

\* __init__ takes no argument and checks nothing: another configuration is
\* one assigned to the attributes num_agents and num_epochs of the
\* constructed runner.  Explored: every pair with a count below 1, and the
\* pairs with one agent per variant.
Configurations == (0..1) \X (0..NumEpochs)

ConfiguredInit ==
    /\ RunnerStart
    /\ \E c \in Configurations : num_agents = c[1] /\ num_epochs = c[2]

-----------------------------------------------------------------------------
(* A single OGIAgent, developed call after call.                           *)

AgentInit ==
    /\ agent = NewOGIAgent
    /\ calls = 0

AgentDevelop ==
    /\ calls < MaxCalls
    /\ \E target \in Targets, rate \in SuccessRates :
          /\ RateAllowed(rate, FailedIn(agent.ledger))
          /\ agent' = DevelopEpoch(agent, target, rate)
    /\ calls' = calls + 1
    /\ UNCHANGED <<runnerVars, medVars, fnVars, pubVars>>

-----------------------------------------------------------------------------
(* The medical example: MedicalDiagnosticAgent and                         *)
(* run_medical_diagnosis_simulation.  Diagnostic strengths, confidences    *)
(* and certainties are fixed-point integers in units of 1/100000000,       *)
(* products and quotients truncated to the unit.  case_history is kept by  *)
(* its length and the number of its entries validated correct.             *)

\* 1.0, 0.95 and 0.1 in diagnostic units
DiagOne == 100000000

DiagMax == 95000000

DiagMin == 10000000

\* "epoch % 5 == 0 and epoch > 0"
SharePeriod == 5

Abs(x) == IF x < 0 THEN 0 - x ELSE x

\* MedicalDiagnosticAgent.__init__, on top of OGIAgent.__init__
NewHospital(id) ==
    [hospital_id |-> id,
     epoch |-> 0,
     reasoning_frameworks |-> EmptyDict,
     ledger |-> <<>>,
     diagnostic_frameworks |->
        [symptom_pattern_recognition |-> 60000000,
         risk_factor_assessment |-> 55000000,
         differential_diagnosis |-> 50000000,
         rare_disease_detection |-> 40000000,
         treatment_response_prediction |-> 45000000],
     case_history |-> [total |-> 0, correct |-> 0]]

\* generate_synthetic_cases: symptoms, demographics['age'] and the outcome
SyntheticCases ==
    << [symptoms |-> {"chest_pain", "shortness_of_breath"}, age |-> 65,
        diagnosis |-> "cardiac_event", certainty |-> 90000000],
       [symptoms |-> {"chest_pain", "shortness_of_breath", "anxiety"}, age |-> 25,
        diagnosis |-> "anxiety_disorder", certainty |-> 80000000],
       [symptoms |-> {"fever", "cough", "fatigue"}, age |-> 35,
        diagnosis |-> "viral_infection", certainty |-> 70000000],
       [symptoms |-> {"headache", "vision_changes", "nausea"}, age |-> 45,
        diagnosis |-> "migraine", certainty |-> 75000000],
       [symptoms |-> {"joint_pain", "stiffness", "swelling"}, age |-> 55,
        diagnosis |-> "rheumatoid_arthritis", certainty |-> 85000000] >>

\* generate_diagnostic_hypothesis
GenerateDiagnosticHypothesis(h, case) ==
    LET confidence == h.diagnostic_frameworks.symptom_pattern_recognition
    IN  IF "chest_pain" \in case.symptoms /\ "shortness_of_breath" \in case.symptoms
        THEN IF case.age > 60
             THEN [primary_diagnosis |-> "cardiac_event",
                   confidence |-> (confidence * 9) \div 10,
                   framework_used |-> "symptom_pattern_recognition"]
             ELSE [primary_diagnosis |-> "anxiety_disorder",
                   confidence |-> (confidence * 7) \div 10,
                   framework_used |-> "symptom_pattern_recognition"]
        ELSE [primary_diagnosis |-> "requires_further_investigation",
              confidence |-> (confidence * 5) \div 10,
              framework_used |-> "differential_diagnosis"]

\* validate_diagnosis
ValidateDiagnosis(hypothesis, case) ==
    LET correct == hypothesis.primary_diagnosis = case.diagnosis
    IN  [correct |-> correct,
         confidence_error |-> Abs(hypothesis.confidence - case.certainty),
         learning_value |-> IF correct THEN 90000000 ELSE 30000000,
         framework_effectiveness |-> IF correct THEN hypothesis.confidence
                                     ELSE 20000000]

\* integrate_diagnostic_learning, on the diagnostic mapping
IntegrateDiagnosticLearning(df, validation_result) ==
    IF validation_result.correct
    THEN LET framework == IF "framework_used" \in DOMAIN validation_result
                          THEN validation_result.framework_used
                          ELSE "general"
         IN  IF framework \in DOMAIN df
             THEN [df EXCEPT ![framework] =
                      Min(DiagMax, @ + (5 * validation_result.learning_value) \div 100)]
             ELSE df
    ELSE [f \in DOMAIN df |->
             Max(DiagMin,
                 df[f] - (DiagOne - validation_result.confidence_error) \div 100)]

\* process_patient_case with an outcome (every synthetic case has one)
ProcessPatientCase(h, case) ==
    LET result == ValidateDiagnosis(GenerateDiagnosticHypothesis(h, case), case)
    IN  [h EXCEPT
            !.diagnostic_frameworks = IntegrateDiagnosticLearning(@, result),
            !.case_history = [total |-> @.total + 1,
                              correct |-> @.correct + (IF result.correct THEN 1 ELSE 0)]]

\* extract_diagnostic_insights: the fields share_medical_knowledge reads,
\* with the mapping copied
ExtractDiagnosticInsights(h) ==
    [hospital_id |-> h.hospital_id,
     diagnostic_frameworks |-> h.diagnostic_frameworks,
     cases_processed |-> h.case_history.total]

\* the innermost loop of share_medical_knowledge: one hospital's mapping
\* after learning from one insight
LearnFromInsight(df, insight) ==
    [f \in DOMAIN df |->
        IF f \in DOMAIN insight.diagnostic_frameworks
        THEN Min(DiagMax,
                 df[f] + (2 * (insight.diagnostic_frameworks[f] - df[f])) \div 100)
        ELSE df[f]]

\* "for insight in insights", from the j-th insight on, for the hospital id
RECURSIVE LearnFromInsights(_, _, _, _)
LearnFromInsights(df, id, insights, j) ==
    IF j > Len(insights) THEN df
    ELSE LearnFromInsights(
             IF insights[j].hospital_id # id
             THEN LearnFromInsight(df, insights[j])
             ELSE df,
             id, insights, j + 1)

\* share_medical_knowledge: the list of hospitals after the call
ShareMedicalKnowledge(hs) ==
    LET insights == [i \in 1..Len(hs) |-> ExtractDiagnosticInsights(hs[i])]
    IN  [i \in 1..Len(hs) |->
            [hs[i] EXCEPT !.diagnostic_frameworks =
                LearnFromInsights(@, hs[i].hospital_id, insights, 1)]]

\* a sharing rule that also fires at the first loop index
ShareDueFromZero(e) == e % SharePeriod = 0

\* "if epoch % 5 == 0 and epoch > 0"
ShareDue(e) == e % SharePeriod = 0 /\ e > 0

\* random.randint(2, 5): cases a hospital processes in one epoch
CaseCounts == {2}

\* random.uniform(0.7, 0.95) as drawn in the hospitals' develop_epoch
MedRates == {95}

\* incorrect diagnoses recorded so far, over all hospitals
IncorrectSoFar(hs) ==
    SumSeq([i \in 1..Len(hs) |-> hs[i].case_history.total - hs[i].case_history.correct])

\* the case draws explored: any correctly diagnosed case, and an incorrectly
\* diagnosed one while the budget lasts
CaseAllowed(hs, h, case) ==
    \/ ValidateDiagnosis(GenerateDiagnosticHypothesis(h, case), case).correct
    \/ IncorrectSoFar(hs) < MaxIncorrect

\* the five hospitals of the program, scaled to NumHospitals
MedInit ==
    /\ hospitals = [i \in 1..NumHospitals |-> NewHospital(i)]
    /\ med_pc = "choose"
    /\ med_epoch = 0
    /\ med_idx = 1
    /\ med_left = 0
    /\ share_calls = <<>>

\* "num_cases = random.randint(2, 5)"
ChooseCases ==
    /\ med_pc = "choose"
    /\ \E n \in CaseCounts : med_left' = n
    /\ med_pc' = "case"
    /\ UNCHANGED <<hospitals, med_epoch, med_idx, share_calls, runnerVars, agentVars,
                   pubVars,
                   fnVars>>

\* one iteration of "for _ in range(num_cases)"
ProcessCase ==
    /\ med_pc = "case"
    /\ med_left > 0
    /\ \E c \in 1..Len(SyntheticCases) :
          /\ CaseAllowed(hospitals, hospitals[med_idx], SyntheticCases[c])
          /\ hospitals' = [hospitals EXCEPT ![med_idx] =
                              ProcessPatientCase(@, SyntheticCases[c])]
    /\ med_left' = med_left - 1
    /\ UNCHANGED <<med_pc, med_epoch, med_idx, share_calls, runnerVars, agentVars,
                   pubVars,
                   fnVars>>

\* "hospital.develop_epoch()", closing the hospital's turn
HospitalDevelop ==
    /\ med_pc = "case"
    /\ med_left = 0
    /\ \E target \in RunnerTargets, rate \in MedRates :
          hospitals' = [hospitals EXCEPT ![med_idx] = DevelopEpoch(@, target, rate)]
    /\ IF med_idx < Len(hospitals)
       THEN med_idx' = med_idx + 1 /\ med_pc' = "choose"
       ELSE med_idx' = 1 /\ med_pc' = "share"
    /\ UNCHANGED <<med_epoch, med_left, share_calls, runnerVars, agentVars,
                   pubVars, fnVars>>

\* the next value of the loop "for epoch in range(15)"
NextMedEpoch ==
    /\ med_epoch' = med_epoch + 1
    /\ med_pc' = IF med_epoch + 1 < MedEpochs THEN "choose" ELSE "done"

\* what a share_medical_knowledge call finds: the loop index, and each
\* hospital's cycle counter and number of processed cases
ShareCall(e, hs) ==
    [epoch |-> e,
     developed |-> [i \in 1..Len(hs) |-> hs[i].epoch],
     cases |-> [i \in 1..Len(hs) |-> hs[i].case_history.total]]

\* "share_medical_knowledge(hospitals)" when due
ShareStep ==
    /\ med_pc = "share"
    /\ ShareDue(med_epoch)
    /\ hospitals' = ShareMedicalKnowledge(hospitals)
    /\ share_calls' = Append(share_calls, ShareCall(med_epoch, hospitals))
    /\ NextMedEpoch
    /\ UNCHANGED <<med_idx, med_left, runnerVars, agentVars, pubVars, fnVars>>

SkipShareStep ==
    /\ med_pc = "share"
    /\ ~ShareDue(med_epoch)
    /\ NextMedEpoch
    /\ UNCHANGED <<hospitals, med_idx, med_left, share_calls, runnerVars, agentVars,
                   pubVars,
                   fnVars>>

-----------------------------------------------------------------------------
(* Single method calls on one agent of each variant, each observed with    *)
(* its draws and its result.                                               *)

\* the agent after n develop_epoch calls that all made the same draws
RECURSIVE DevelopTimes(_, _, _, _)
DevelopTimes(a, n, target, rate) ==
    IF n = 0 THEN a
    ELSE DevelopTimes(DevelopEpoch(a, target, rate), n - 1, target, rate)

\* the passing draws of random.uniform(0.7, 0.95)
PassingRates == {rate \in SuccessRates : rate > PassThreshold}

NoCall == [fn |-> "none", n |-> 0]

\* freshly constructed agents, no call made yet
FnInit ==
    /\ fn_agent = NewOGIAgent
    /\ fn_fl = NewFederatedAgent
    /\ fn_call = NoCall

\* the agents develop_epoch is observed on: a fresh one, and one that has
\* developed a single framework to just below the 0.95 clamp
DevelopInit ==
    /\ fn_agent \in {DevelopTimes(NewOGIAgent, n, target, rate) :
                        n \in {0, MaxCalls - 1}, target \in RunnerTargets,
                        rate \in PassingRates}
    /\ fn_fl = NewFederatedAgent
    /\ fn_call = NoCall

\* one develop_epoch call: the agent before it and the cycle result that the
\* call returns are kept in fn_call
DevelopCall ==
    /\ fn_call.n < MaxDevelop
    /\ \E target \in Targets, rate \in SuccessRates :
          /\ fn_agent' = DevelopEpoch(fn_agent, target, rate)
          /\ fn_call' = [fn |-> "develop_epoch", n |-> fn_call.n + 1,
                         before |-> fn_agent,
                         result |-> TestHypothesis(
                                        GenerateHypothesis(fn_agent, target),
                                        rate)]
    /\ UNCHANGED <<fn_fl, runnerVars, agentVars, pubVars, medVars>>

\* the federated agent after n train_epoch calls
RECURSIVE TrainTimes(_, _, _)
TrainTimes(a, n, comm) ==
    IF n = 0 THEN a ELSE TrainTimes(TrainEpoch(a, comm), n - 1, comm)

\* the agents the metrics are observed on: an OGI agent after 0 .. MaxCycle
\* cycles, a federated agent after 0 .. MaxTrain cycles
MetricsInit ==
    /\ fn_agent \in {DevelopTimes(NewOGIAgent, n, target, rate) :
                        n \in 0..MaxCycle, target \in RunnerTargets,
                        rate \in PassingRates}
    /\ fn_fl \in {TrainTimes(NewFederatedAgent, n, comm) :
                     n \in 0..MaxTrain, comm \in UploadSamples}
    /\ fn_call = NoCall

\* one OGIAgent.calculate_cci call; drawn lists the values taken from the
\* random module
CciCall ==
    /\ \E noise \in CciNoiseSamples :
          fn_call' = [fn |-> "calculate_cci",
                      drawn |-> [i \in 1..Len(OgiCalculateCciDraws(fn_agent))
                                    |-> noise],
                      value |-> OgiCalculateCci(fn_agent, noise)]
    /\ UNCHANGED <<fn_agent, fn_fl, runnerVars, agentVars, pubVars, medVars>>

\* one OGIAgent.calculate_mutation_drift call
DriftCall ==
    /\ \E noise \in DriftNoiseSamples :
          fn_call' = [fn |-> "calculate_mutation_drift",
                      drawn |-> [i \in 1..Len(OgiCalculateMutationDriftDraws)
                                    |-> noise],
                      value |-> OgiCalculateMutationDrift(fn_agent, noise)]
    /\ UNCHANGED <<fn_agent, fn_fl, runnerVars, agentVars, pubVars, medVars>>

\* one FederatedAgent.calculate_cci call
FlCciCall ==
    /\ \E sample \in FlCciCallSamples :
          fn_call' = [fn |-> "fl_calculate_cci",
                      drawn |-> [i \in 1..Len(FlCalculateCciDraws) |-> sample],
                      value |-> FlCalculateCci(sample)]
    /\ UNCHANGED <<fn_agent, fn_fl, runnerVars, agentVars, pubVars, medVars>>

-----------------------------------------------------------------------------
(* scripts/publish_ogi_content.py and the publisher classes of             *)
(* social_api_integration.py.  A call either returns a value or raises;    *)
(* every API method call is logged with its argument and its outcome.      *)

\* Python's None
None == "None"

\* None where an object (an API client, the publisher) is expected
NoObject == [none |-> TRUE]

\* truth value of a token or URL: None and the empty string are false
Truthy(v) == v # None /\ v # ""

StatusOk == 200

StatusCreated == 201

\* requests raised before any response arrived (no status code)
NoResponse == 0

\* what the platform answers to one request
Responses == {NoResponse, StatusOk, StatusCreated, 500}

\* the answers to the two requests one API method can make
HttpOutcomes == [info : Responses, post : Responses]

\* data['url'] of a created Medium post
ArticleUrl == "https://medium.com/@uniqstic/ogi"

RepoUrl == "https://github.com/Uiota/ontogenetic-intelligence"

Raise(msg) == [raised |-> TRUE, error |-> msg]

Return(v) == [raised |-> FALSE, value |-> v]

LogEntry(call, arg, out) ==
    [call |-> call, arg |-> arg, raised |-> out.raised,
     value |-> IF out.raised THEN None ELSE out.value]

\* MediumAPI.__init__
NewMediumAPI == [user_id |-> None]

\* MediumAPI.get_user_info
MediumGetUserInfo(api, status) ==
    IF status = NoResponse
    THEN [api |-> api, out |-> Raise("ConnectionError")]
    ELSE IF status = StatusOk
         THEN [api |-> [api EXCEPT !.user_id = "user"], out |-> Return("user")]
         ELSE [api |-> api, out |-> Raise("Failed to get user info")]

\* MediumAPI.create_post: the value is data['url'] of the created post
MediumCreatePost(api, publish_status, http) ==
    LET info == IF ~Truthy(api.user_id)
                THEN MediumGetUserInfo(api, http.info)
                ELSE [api |-> api, out |-> Return(api.user_id)]
        out  == IF info.out.raised THEN info.out
                ELSE IF http.post = NoResponse THEN Raise("ConnectionError")
                ELSE IF http.post = StatusCreated THEN Return(ArticleUrl)
                ELSE Raise("Failed to create post")
    IN  [api |-> info.api, out |-> out,
         calls |-> <<LogEntry("medium.create_post", publish_status, out)>>]

\* LinkedInAPI.__init__
NewLinkedInAPI == [person_urn |-> None]

\* LinkedInAPI.get_profile_info
LinkedInGetProfileInfo(api, status) ==
    IF status = NoResponse
    THEN [api |-> api, out |-> Raise("ConnectionError")]
    ELSE IF status = StatusOk
         THEN [api |-> [api EXCEPT !.person_urn = "person"], out |-> Return("person")]
         ELSE [api |-> api, out |-> Raise("Failed to get profile info")]

\* the shared shape of create_text_post and create_article_share: profile
\* lookup when person_urn is unset, then one POST to ugcPosts
LinkedInPost(api, call, arg, http) ==
    LET info == IF ~Truthy(api.person_urn)
                THEN LinkedInGetProfileInfo(api, http.info)
                ELSE [api |-> api, out |-> Return(api.person_urn)]
        out  == IF info.out.raised THEN info.out
                ELSE IF http.post = NoResponse THEN Raise("ConnectionError")
                ELSE IF http.post = StatusCreated THEN Return("post")
                ELSE Raise("Failed to create LinkedIn post")
    IN  [api |-> info.api, out |-> out, calls |-> <<LogEntry(call, arg, out)>>]

\* LinkedInAPI.create_text_post
LinkedInCreateTextPost(api, text, http) ==
    LinkedInPost(api, "linkedin.create_text_post", text, http)

\* LinkedInAPI.create_article_share
LinkedInCreateArticleShare(api, article_url, http) ==
    LinkedInPost(api, "linkedin.create_article_share", article_url, http)

\* OGIContentPublisher.__init__
NewPublisher(medium_token, linkedin_token) ==
    [medium |-> IF Truthy(medium_token) THEN NewMediumAPI ELSE NoObject,
     linkedin |-> IF Truthy(linkedin_token) THEN NewLinkedInAPI ELSE NoObject]

\* OGIContentPublisher.publish_ogi_article_to_medium
PublishOgiArticleToMedium(self, publish_status, http) ==
    IF self.medium = NoObject
    THEN [publisher |-> self, out |-> Raise("Medium API not configured"),
          calls |-> <<>>]
    ELSE LET r == MediumCreatePost(self.medium, publish_status, http)
         IN  [publisher |-> [self EXCEPT !.medium = r.api], out |-> r.out,
              calls |-> r.calls]

\* a share_on_linkedin that posts the repository text whatever it is given
PublisherShareTextOnly(self, url, http) ==
    IF self.linkedin = NoObject
    THEN [publisher |-> self, out |-> Raise("LinkedIn API not configured"),
          calls |-> <<>>]
    ELSE LET r == LinkedInCreateTextPost(self.linkedin, RepoUrl, http)
         IN  [publisher |-> [self EXCEPT !.linkedin = r.api], out |-> r.out,
              calls |-> r.calls]

\* OGIContentPublisher.share_on_linkedin
PublisherShareOnLinkedin(self, url, http) ==
    IF self.linkedin = NoObject
    THEN [publisher |-> self, out |-> Raise("LinkedIn API not configured"),
          calls |-> <<>>]
    ELSE LET r == IF Truthy(url)
                  THEN LinkedInCreateArticleShare(self.linkedin, url, http)
                  ELSE LinkedInCreateTextPost(self.linkedin, RepoUrl, http)
         IN  [publisher |-> [self EXCEPT !.linkedin = r.api], out |-> r.out,
              calls |-> r.calls]

\* a publish_to_medium without its try/except
PublishToMediumUncaught(p, public, http) ==
    LET status == IF public THEN "public" ELSE "draft"
        r == PublishOgiArticleToMedium(p, status, http)
    IN  [publisher |-> r.publisher, out |-> r.out,
         calls |-> r.calls \o <<LogEntry("publish_to_medium", status, r.out)>>]

\* publish_to_medium of the script: the URL, or None after any exception
PublishToMedium(p, public, http) ==
    LET status == IF public THEN "public" ELSE "draft"
        r == PublishOgiArticleToMedium(p, status, http)
        out == IF r.out.raised THEN Return(None) ELSE r.out
    IN  [publisher |-> r.publisher, out |-> out,
         calls |-> r.calls \o <<LogEntry("publish_to_medium", status, out)>>]

\* share_on_linkedin of the script: the result, or None after any exception
ShareOnLinkedin(p, url, http) ==
    LET r == PublisherShareOnLinkedin(p, url, http)
        out == IF r.out.raised THEN Return(None) ELSE r.out
    IN  [publisher |-> r.publisher, out |-> out,
         calls |-> r.calls \o <<LogEntry("share_on_linkedin", url, out)>>]

\* load_credentials: (None, None) without a .env file, else the two values
LoadCredentials(env) ==
    IF env.exists THEN <<env.medium_token, env.linkedin_token>> ELSE <<None, None>>

medium_token == LoadCredentials(pub_env)[1]

linkedin_token == LoadCredentials(pub_env)[2]

\* the command lines: any combination of the four flags
ArgSets == [medium_draft : BOOLEAN, medium_public : BOOLEAN,
            linkedin : BOOLEAN, all : BOOLEAN]

\* the .env file: present or not, each token unset, empty or set
Environments == [exists : BOOLEAN, medium_token : {None, "", "token"},
                 linkedin_token : {None, "", "token"}]

\* the script as started with no flag and no .env file, before main runs
PubIdle ==
    /\ pub_pc = "start"
    /\ pub_args = [medium_draft |-> FALSE, medium_public |-> FALSE,
                   linkedin |-> FALSE, all |-> FALSE]
    /\ pub_env = [exists |-> FALSE, medium_token |-> None, linkedin_token |-> None]
    /\ publisher = NoObject
    /\ medium_url = None
    /\ pub_log = <<>>

\* the script started on any command line and environment
PubInit ==
    /\ pub_pc = "start"
    /\ pub_args \in ArgSets
    /\ pub_env \in Environments
    /\ publisher = NoObject
    /\ medium_url = None
    /\ pub_log = <<>>

\* main up to "medium_url = None": help without a flag, setup instructions
\* without any token, else the publisher is constructed
PubStart ==
    /\ pub_pc = "start"
    /\ IF ~(pub_args.medium_draft \/ pub_args.medium_public
             \/ pub_args.linkedin \/ pub_args.all)
       THEN pub_pc' = "help" /\ UNCHANGED publisher
       ELSE IF ~Truthy(medium_token) /\ ~Truthy(linkedin_token)
            THEN pub_pc' = "no_credentials" /\ UNCHANGED publisher
            ELSE /\ publisher' = NewPublisher(medium_token, linkedin_token)
                 /\ pub_pc' = IF pub_args.all THEN "public" ELSE "draft"
    /\ UNCHANGED <<pub_args, pub_env, medium_url, pub_log, runnerVars, agentVars,
                   medVars, fnVars>>

\* whether main calls publish_to_medium at this position
MediumRequested ==
    IF pub_args.all
    THEN pub_pc = "public" /\ Truthy(medium_token)
    ELSE \/ pub_pc = "draft" /\ pub_args.medium_draft /\ Truthy(medium_token)
         \/ pub_pc = "public" /\ pub_args.medium_public /\ Truthy(medium_token)

\* whether main calls share_on_linkedin
LinkedinRequested ==
    IF pub_args.all
    THEN Truthy(linkedin_token)
    ELSE pub_args.linkedin /\ Truthy(linkedin_token)

AfterMedium == IF pub_pc = "draft" THEN "public" ELSE "linkedin"

\* "medium_url = publish_to_medium(publisher, public=...)"
PublishMediumStep ==
    /\ pub_pc \in {"draft", "public"}
    /\ MediumRequested
    /\ \E http \in HttpOutcomes :
          LET r == PublishToMedium(publisher, pub_pc = "public", http)
          IN  /\ publisher' = r.publisher
              /\ pub_log' = pub_log \o r.calls
              /\ IF r.out.raised
                 THEN pub_pc' = "crashed" /\ UNCHANGED medium_url
                 ELSE pub_pc' = AfterMedium /\ medium_url' = r.out.value
    /\ UNCHANGED <<pub_args, pub_env, runnerVars, agentVars, medVars, fnVars>>

SkipMediumStep ==
    /\ pub_pc \in {"draft", "public"}
    /\ ~MediumRequested
    /\ pub_pc' = AfterMedium
    /\ UNCHANGED <<pub_args, pub_env, publisher, medium_url, pub_log, runnerVars,
                   agentVars, medVars, fnVars>>

\* "share_on_linkedin(publisher, medium_url)"
ShareLinkedinStep ==
    /\ pub_pc = "linkedin"
    /\ LinkedinRequested
    /\ \E http \in HttpOutcomes :
          LET r == ShareOnLinkedin(publisher, medium_url, http)
          IN  /\ publisher' = r.publisher
              /\ pub_log' = pub_log \o r.calls
              /\ pub_pc' = IF r.out.raised THEN "crashed" ELSE "complete"
    /\ UNCHANGED <<pub_args, pub_env, medium_url, runnerVars, agentVars, medVars,
                   fnVars>>

SkipLinkedinStep ==
    /\ pub_pc = "linkedin"
    /\ ~LinkedinRequested
    /\ pub_pc' = "complete"
    /\ UNCHANGED <<pub_args, pub_env, publisher, medium_url, pub_log, runnerVars,
                   agentVars, medVars, fnVars>>

\* "print(Publishing complete!)" and the closing links
CompleteStep ==
    /\ pub_pc = "complete"
    /\ pub_pc' = "done"
    /\ UNCHANGED <<pub_args, pub_env, publisher, medium_url, pub_log, runnerVars,
                   agentVars, medVars, fnVars>>

-----------------------------------------------------------------------------
(* Specifications.                                                         *)

\* the simulation runner; the directly driven agent and the hospitals stay
\* as constructed
Init == RunnerInit /\ AgentInit /\ MedInit /\ FnInit /\ PubIdle

Next == StartScenario \/ DevelopStep \/ TrainStep \/ SyncStep \/ SkipSyncStep
        \/ RecordStep \/ AnalysisStep

Spec == Init /\ [][Next]_vars

\* one OGI agent; the runner stays as constructed
NextAgent == AgentDevelop

SpecAgent == Init /\ [][NextAgent]_vars

\* run_medical_diagnosis_simulation
NextMedical == ChooseCases \/ ProcessCase \/ HospitalDevelop \/ ShareStep
               \/ SkipShareStep

SpecMedical == Init /\ [][NextMedical]_vars

\* the runner under the configurations of ConfiguredInit
InitConfigured == ConfiguredInit /\ AgentInit /\ MedInit /\ FnInit /\ PubIdle

SpecConfigured == InitConfigured /\ [][Next]_vars

\* the metric methods of the two variants, call by call
NextMetrics == CciCall \/ DriftCall \/ FlCciCall

InitMetrics == RunnerInit /\ AgentInit /\ MedInit /\ MetricsInit /\ PubIdle

SpecMetrics == InitMetrics /\ [][NextMetrics]_vars

\* develop_epoch, call by call, on one OGI agent
NextDevelop == DevelopCall

InitDevelop == RunnerInit /\ AgentInit /\ MedInit /\ DevelopInit /\ PubIdle

SpecDevelop == InitDevelop /\ [][NextDevelop]_vars

\* the publishing script, from any command line and environment
NextPublish == PubStart \/ PublishMediumStep \/ SkipMediumStep \/ ShareLinkedinStep
               \/ SkipLinkedinStep \/ CompleteStep

InitPublish == RunnerInit /\ AgentInit /\ MedInit /\ FnInit /\ PubInit

SpecPublish == InitPublish /\ [][NextPublish]_vars


-----------------------------------------------------------------------------
(* Properties.                                                             *)

IsPrefix(s, t) == Len(s) <= Len(t) /\ SubSeq(t, 1, Len(s)) = s

Last(s) == s[Len(s)]

\* the records of one scenario, in the order they were appended
ScenarioRecords(name) == SelectSeq(results, LAMBDA r : r.scenario = name)

\* the cycles of scenario s (an index into Scenarios) completed so far
CompletedCycles(s) ==
    IF s < scenario THEN NumEpochs
    ELSE IF s > scenario THEN 0
    ELSE IF pc = "start" THEN 0
    ELSE IF pc \in {"analysis", "done"} THEN NumEpochs
    ELSE epoch

\* the train_epoch calls made so far on the i-th federated agent of the list
TrainCalls(i) ==
    IF pc = "ogi" THEN epoch
    ELSE IF pc = "fl" THEN (IF i < idx THEN epoch + 1 ELSE epoch)
    ELSE IF pc \in {"sync", "metrics"} THEN epoch + 1
    ELSE NumEpochs

\* C1: after k develop_epoch calls on a fresh agent the ledger has exactly k
\* entries and the i-th entry (0-based) carries epoch i.
C1_LedgerIsCallSequence ==
    /\ Len(agent.ledger) = calls
    /\ \A i \in 1..Len(agent.ledger) : agent.ledger[i].epoch = i - 1

C1_Witness ==
    /\ calls = 3
    /\ Len(agent.ledger) = 3
    /\ agent.ledger[3].epoch = 2

\* C2: the ledger is append-only: every step of the simulation on an
\* existing agent list (develop_epoch, train_epoch, the synchronization step,
\* the metric computation) leaves each agent's earlier ledger a prefix of its
\* later ledger.
C2_LedgerAppendOnly ==
    [][pc # "start" =>
          /\ Len(ogi_agents') = Len(ogi_agents)
          /\ \A i \in 1..Len(ogi_agents) :
                IsPrefix(ogi_agents[i].ledger, ogi_agents'[i].ledger)]_vars

\* a synchronization at cycle 5 has run over ledgers holding six entries
C2_Witness ==
    /\ pc = "metrics"
    /\ epoch = 5
    /\ Len(sync_calls) >= 2
    /\ \A i \in 1..Len(ogi_agents) : Len(ogi_agents[i].ledger) = 6

\* C3: at a synchronization event, whenever two distinct agents hold
\* different values for a framework present in both mappings, the first
\* agent's value is nudged toward the second's, so it differs afterwards from
\* what it was before.
C3_SyncNudgesPeers ==
    [][(pc = "sync" /\ SyncDue(epoch) /\ pc' = "metrics") =>
          \A a, b \in 1..Len(ogi_agents) :
             a # b =>
                LET fa == ogi_agents[a].reasoning_frameworks
                    fb == ogi_agents[b].reasoning_frameworks
                IN  \A k \in DOMAIN fa \cap DOMAIN fb :
                       fa[k] # fb[k] =>
                          ogi_agents'[a].reasoning_frameworks[k] # fa[k]]_vars

\* the permutations of 1..n
Perms(n) == {p \in [1..n -> 1..n] : \A i, j \in 1..n : p[i] = p[j] => i = j}

\* the list hs taken in the order p
Permute(hs, p) == [i \in 1..Len(hs) |-> hs[p[i]]]

\* C4: the cross-agent nudge step (share_medical_knowledge) computes every
\* nudge against the pre-sync snapshot, so for the pre-sync state of any
\* knowledge-sharing session, running the step on any permutation of the
\* hospital list gives every hospital the same post-sync mapping.
C4_ShareOrderIndependent ==
    (med_pc = "share" /\ ShareDue(med_epoch)) =>
        \A p \in Perms(Len(hospitals)) :
            LET direct == ShareMedicalKnowledge(hospitals)
                permuted == ShareMedicalKnowledge(Permute(hospitals, p))
            IN  \A i \in 1..Len(hospitals) :
                   /\ permuted[i].hospital_id = direct[p[i]].hospital_id
                   /\ permuted[i].diagnostic_frameworks =
                         direct[p[i]].diagnostic_frameworks

\* C5: every value in reasoning_frameworks is at most 0.95, whatever the
\* outcomes of the develop_epoch calls.
C5_StrengthAtMostMax ==
    \A k \in DOMAIN agent.reasoning_frameworks :
        agent.reasoning_frameworks[k] <= 9500

\* 24 passing cycles on one framework: 0.5 + 24 * 0.019 = 0.956, clamped
C5_Witness ==
    /\ calls = 24
    /\ \E k \in DOMAIN agent.reasoning_frameworks :
          agent.reasoning_frameworks[k] = 9500

\* C6: run_scenario appends one Metric Record per cycle: after j completed
\* cycles of a scenario exactly j of its records exist, with epoch fields
\* 0, 1, ..., j-1 in that order, and NumEpochs of them once it has finished.
C6_OneRecordPerCycle ==
    \A s \in 1..Len(Scenarios) :
        LET rs == ScenarioRecords(Scenarios[s])
        IN  /\ Len(rs) = CompletedCycles(s)
            /\ \A i \in 1..Len(rs) : rs[i].epoch = i - 1

C6_Witness ==
    /\ pc = "done"
    /\ Len(ScenarioRecords(Scenarios[1])) = NumEpochs
    /\ Len(results) = Len(Scenarios) * NumEpochs

\* C7: in every Metric Record comm_ogi_mb is the sample returned by the
\* synchronizer call of that cycle when cycle index % 5 = 0 and is 0 on every
\* other cycle; the synchronizer is called on those cycles only, once each.
C7_SyncCommOnPeriod ==
    /\ \A i \in 1..Len(results) :
          LET r == results[i]
          IN  IF r.epoch % 5 = 0
              THEN \E j \in 1..Len(sync_calls) :
                      /\ sync_calls[j].scenario = r.scenario
                      /\ sync_calls[j].epoch = r.epoch
                      /\ sync_calls[j].comm = r.comm_ogi_mb
              ELSE r.comm_ogi_mb = 0
    /\ \A j \in 1..Len(sync_calls) : sync_calls[j].epoch % 5 = 0
    /\ \A j, k \in 1..Len(sync_calls) :
          (/\ sync_calls[j].scenario = sync_calls[k].scenario
           /\ sync_calls[j].epoch = sync_calls[k].epoch) => j = k

\* records of cycles 4 and 5 exist: one without, one with a synchronization
C7_Witness ==
    \E i \in 1..Len(results) :
       /\ i > 1
       /\ results[i].epoch = 5
       /\ results[i].comm_ogi_mb = 12
       /\ results[i - 1].comm_ogi_mb = 0

\* C8: the comm_flower_mb field of a cycle's Metric Record is the sum of the
\* communication-cost samples that the federated agents' upload steps
\* produced during that cycle.
C8_FlowerCommIsUploadSum ==
    [][(pc = "metrics" /\ Len(results') = Len(results) + 1) =>
          Last(results').comm_flower_mb = upload_total]_vars

\* C9: every train_epoch call stores previous version + 1, so after k calls
\* on a fresh federated agent global_model_version = epoch = k.
C9_VersionIsCallCount ==
    \A i \in 1..Len(fl_agents) :
        /\ fl_agents[i].global_model_version = TrainCalls(i)
        /\ fl_agents[i].epoch = TrainCalls(i)

C9_Witness ==
    /\ pc = "fl"
    /\ idx = 2
    /\ fl_agents[1].global_model_version = 3
    /\ fl_agents[2].global_model_version = 2

\* C10: the cycle counter of either variant is 0 at creation, grows by
\* exactly 1 in the agent's own develop_epoch / train_epoch and is changed by
\* no other step (synchronization, metric computation, another agent's
\* advance).
C10_CounterStepsByOne ==
    [][IF pc = "start"
       THEN /\ \A i \in 1..Len(ogi_agents') : ogi_agents'[i].epoch = 0
            /\ \A i \in 1..Len(fl_agents') : fl_agents'[i].epoch = 0
       ELSE /\ \A i \in 1..Len(ogi_agents) :
                 ogi_agents'[i].epoch =
                    ogi_agents[i].epoch + (IF pc = "ogi" /\ idx = i THEN 1 ELSE 0)
            /\ \A i \in 1..Len(fl_agents) :
                 fl_agents'[i].epoch =
                    fl_agents[i].epoch + (IF pc = "fl" /\ idx = i THEN 1 ELSE 0)]_vars

\* a whole scenario has run: every counter stands at the number of cycles,
\* with a failed validation among the cycles
C10_Witness ==
    /\ pc = "metrics"
    /\ epoch = NumEpochs - 1
    /\ \A i \in 1..Len(ogi_agents) : ogi_agents[i].epoch = NumEpochs
    /\ \A i \in 1..Len(fl_agents) : fl_agents[i].epoch = NumEpochs
    /\ FailedSoFar(ogi_agents) = 1

\* C11: in develop_epoch a cycle result that fails validation leaves the
\* framework mapping as it was; one that passes changes the entry of the
\* hypothesis's target only: it starts from 0.5 if absent and becomes
\* min(0.95, old + 0.02 * success_rate); every other entry keeps its value
\* and no other entry appears or disappears.
C11_OnlyTargetChanges ==
    fn_call.fn = "develop_epoch" =>
        LET old == fn_call.before.reasoning_frameworks
            new == fn_agent.reasoning_frameworks
            key == fn_call.result.hypothesis.target
            start == IF key \in DOMAIN old THEN old[key] ELSE 5000
            raised == start + 2 * fn_call.result.success_rate
        IN  IF fn_call.result.validation_passed
            THEN /\ DOMAIN new = DOMAIN old \cup {key}
                 /\ new[key] = IF raised > 9500 THEN 9500 ELSE raised
                 /\ \A k \in DOMAIN old \ {key} : new[k] = old[k]
            ELSE new = old

\* a passing cycle on a framework already there that the clamp cuts to 0.95,
\* next to another framework, after a failed cycle
C11_Witness ==
    /\ fn_call.fn = "develop_epoch"
    /\ fn_call.result.validation_passed
    /\ fn_call.result.hypothesis.target \in
          DOMAIN fn_call.before.reasoning_frameworks
    /\ Cardinality(DOMAIN fn_agent.reasoning_frameworks) >= 2
    /\ fn_agent.reasoning_frameworks[fn_call.result.hypothesis.target] = 9500
    /\ FailedIn(fn_agent.ledger) >= 1

\* C12: the steps of one cycle of run_scenario come in this order: every OGI
\* agent is advanced (in list order), then every federated agent, then the
\* synchronizer runs if and only if cycle index % 5 = 0, then the means are
\* computed and exactly one Metric Record, that of this cycle, is appended;
\* the cycle index only grows, by one, with the record of the cycle it
\* leaves, so that no step of cycle e+1 comes before the record of cycle e.
C12_CycleStepOrder ==
    [][/\ pc = "ogi" =>
             /\ \A i \in 1..Len(ogi_agents) :
                   ogi_agents[i].epoch = epoch + (IF i < idx THEN 1 ELSE 0)
             /\ \A i \in 1..Len(fl_agents) : fl_agents[i].epoch = epoch
             /\ pc' \in {"ogi", "fl"}
       /\ pc = "fl" =>
             /\ \A i \in 1..Len(ogi_agents) : ogi_agents[i].epoch = epoch + 1
             /\ \A i \in 1..Len(fl_agents) :
                   fl_agents[i].epoch = epoch + (IF i < idx THEN 1 ELSE 0)
             /\ pc' \in {"fl", "sync"}
       /\ pc \in {"sync", "metrics"} =>
             /\ \A i \in 1..Len(ogi_agents) : ogi_agents[i].epoch = epoch + 1
             /\ \A i \in 1..Len(fl_agents) : fl_agents[i].epoch = epoch + 1
       /\ pc = "sync" =>
             /\ pc' = "metrics"
             /\ Len(sync_calls') = Len(sync_calls) + (IF epoch % 5 = 0 THEN 1 ELSE 0)
       /\ pc # "sync" => sync_calls' = sync_calls
       /\ pc \in {"ogi", "fl", "sync", "metrics"} =>
             Len(ScenarioRecords(Scenarios[scenario])) = epoch
       /\ pc = "metrics" =>
             /\ Len(results') = Len(results) + 1
             /\ Last(results').epoch = epoch
             /\ Last(results').scenario = Scenarios[scenario]
             /\ pc' \in {"ogi", "start", "analysis"}
       /\ pc # "metrics" => results' = results
       /\ epoch' # epoch =>
             \/ pc = "metrics" /\ epoch' = epoch + 1 /\ pc' = "ogi"
             \/ pc = "start" /\ epoch' = 0]_vars

\* the sixth cycle of the second scenario stands before its record, with its
\* synchronization made and the records of the five cycles before it emitted
C12_Witness ==
    /\ pc = "metrics"
    /\ scenario = 2
    /\ epoch = 5
    /\ sync_calls # <<>>
    /\ Last(sync_calls).epoch = 5
    /\ Last(sync_calls).scenario = Scenarios[2]
    /\ Len(ScenarioRecords(Scenarios[2])) = 5
    /\ \A i \in 1..Len(fl_agents) : fl_agents[i].epoch = 6

\* C13: no agent state carries from one scenario to the next: the step that
\* opens a run_scenario leaves num_agents agents of each variant, every OGI
\* agent with epoch 0, an empty ledger and an empty framework mapping, every
\* federated agent with epoch 0 and global_model_version 0, whatever the
\* lists held before.
C13_FreshAgentsPerScenario ==
    [][pc = "start" =>
          /\ Len(ogi_agents') = num_agents
          /\ Len(fl_agents') = num_agents
          /\ \A i \in 1..Len(ogi_agents') :
                /\ ogi_agents'[i].epoch = 0
                /\ ogi_agents'[i].ledger = <<>>
                /\ DOMAIN ogi_agents'[i].reasoning_frameworks = {}
          /\ \A i \in 1..Len(fl_agents') :
                /\ fl_agents'[i].epoch = 0
                /\ fl_agents'[i].global_model_version = 0]_vars

\* the third scenario opens on fresh agents after two scenarios have run
C13_Witness ==
    /\ scenario = 3
    /\ pc = "ogi"
    /\ epoch = 0
    /\ idx = 1
    /\ Len(results) = 2 * NumEpochs
    /\ \A i \in 1..Len(ogi_agents) : ogi_agents[i].ledger = <<>>
    /\ \A i \in 1..Len(fl_agents) : fl_agents[i].global_model_version = 0

\* C14: scenario isolation: a scenario consumes the same draws of the seeded
\* stream, in the same order, whichever position it has in the scenario
\* list.  The scenario in first position draws from position 0 of the stream
\* on; so must a scenario in any other position, that is: every run_scenario
\* begins at stream position 0.
C14_ScenarioDrawsIndependentOfPosition ==
    pc = "start" => draws = 0

\* the calls of the random module in cycle e of a scenario: four in each
\* develop_epoch, three in each train_epoch, one in each of the four metrics
\* of each agent, and one in the synchronization when it is due
CycleDraws(e) == 11 * num_agents + (IF e % 5 = 0 THEN 1 ELSE 0)

\* those of the cycles 0 .. n-1
RECURSIVE DrawsOfCycles(_)
DrawsOfCycles(n) ==
    IF n = 0 THEN 0 ELSE DrawsOfCycles(n - 1) + CycleDraws(n - 1)

\* those made in the cycle in progress before the step that pc stands at
DrawsInCycle ==
    IF pc = "ogi" THEN 4 * (idx - 1)
    ELSE IF pc = "fl" THEN 4 * num_agents + 3 * (idx - 1)
    ELSE IF pc = "sync" THEN 7 * num_agents
    ELSE 7 * num_agents + (IF epoch % 5 = 0 THEN 1 ELSE 0)

\* C15: reproducibility: executions from the same seeded source and the same
\* configuration consume the draws in the same order.  The position reached
\* in the seeded stream is fixed by the point reached in the program
\* (scenario, cycle, step, agent) and by the configuration alone, whatever
\* values were drawn before: the k-th draw goes to the same call in every
\* execution, so the same stream gives the same Metric Records.
C15_DrawOrderFixed ==
    draws =
        IF pc = "start" THEN (scenario - 1) * DrawsOfCycles(num_epochs)
        ELSE IF pc \in {"analysis", "done"}
        THEN Len(Scenarios) * DrawsOfCycles(num_epochs)
        ELSE (scenario - 1) * DrawsOfCycles(num_epochs)
             + DrawsOfCycles(epoch) + DrawsInCycle

\* the sixth cycle of the second scenario before its metrics, one validation
\* of the scenario having failed
C15_Witness ==
    /\ scenario = 2
    /\ pc = "metrics"
    /\ epoch = 5
    /\ FailedSoFar(ogi_agents) = 1
    /\ draws = DrawsOfCycles(NumEpochs) + DrawsOfCycles(5) + 7 * NumAgents + 1

\* C16: a runner whose agent count or cycle count is below 1 is rejected at
\* construction (InvalidConfiguration), so that under such a configuration
\* no scenario is ever run and no Metric Record is ever produced: the runner
\* never leaves the point before its first scenario and results stays empty.
C16_InvalidConfigurationRejected ==
    (num_agents < 1 \/ num_epochs < 1) =>
        /\ pc = "start"
        /\ scenario = 1
        /\ results = <<>>

\* C17: results holds one Metric Record per (scenario, cycle) pair, ordered
\* by scenario in configured order and by ascending cycle index within a
\* scenario (so no pair appears twice); records already emitted are never
\* modified or removed; after run_full_simulation on a fresh runner there
\* are |scenarios| * num_epochs of them.
C17_ResultsOrderedAndImmutable ==
    [][/\ IsPrefix(results, results')
       /\ \A k \in 1..Len(results') :
             /\ results'[k].scenario = Scenarios[((k - 1) \div num_epochs) + 1]
             /\ results'[k].epoch = (k - 1) % num_epochs
       /\ pc' = "done" => Len(results') = Len(Scenarios) * num_epochs]_vars

\* the run has ended; the record after the first scenario's last one is the
\* second scenario's record of cycle 0
C17_Witness ==
    /\ pc = "done"
    /\ Len(results) = Len(Scenarios) * NumEpochs
    /\ results[NumEpochs].scenario = Scenarios[1]
    /\ results[NumEpochs].epoch = NumEpochs - 1
    /\ results[NumEpochs + 1].scenario = Scenarios[2]
    /\ results[NumEpochs + 1].epoch = 0

\* C18: OGIAgent.calculate_cci: at cycle count 0 it returns exactly 0.65 and
\* draws no noise; at every cycle count >= 1 it draws one noise value and,
\* whatever that value, returns a result in [0.60, 0.95].
C18_OgiCciRange ==
    fn_call.fn = "calculate_cci" =>
        IF fn_agent.epoch = 0
        THEN fn_call.value = 6500 /\ fn_call.drawn = <<>>
        ELSE /\ Len(fn_call.drawn) = 1
             /\ 6000 <= fn_call.value
             /\ fn_call.value <= 9500

\* noise -0.07 at cycle count 1: 0.65 + 0.0139 - 0.07 is below 0.60, and
\* the clamp returns 0.60
C18_Witness ==
    /\ fn_call.fn = "calculate_cci"
    /\ fn_agent.epoch = 1
    /\ fn_call.drawn = <<-700>>
    /\ fn_call.value = 6000

\* C19: OGIAgent.calculate_mutation_drift returns
\* max(0, 0.10 - 0.005 * cycle) + noise, with no clamp after the noise: the
\* part before the noise is never negative and is 0 from cycle 20 on, and
\* when the noise is below minus that part the returned drift is negative.
C19_DriftUnclampedAfterNoise ==
    fn_call.fn = "calculate_mutation_drift" =>
        LET cycle == fn_agent.epoch
            noise == fn_call.drawn[1]
            base == fn_call.value - noise
        IN  /\ base >= 0
            /\ cycle < 20 => base = 1000 - 50 * cycle
            /\ cycle >= 20 => base = 0
            /\ noise < 0 - base => fn_call.value < 0

\* noise -0.01 at cycle count 19, where the base is 0.005: the drift
\* returned is -0.005
C19_Witness ==
    /\ fn_call.fn = "calculate_mutation_drift"
    /\ fn_agent.epoch = 19
    /\ fn_call.drawn = <<-100>>
    /\ fn_call.value = -50

\* C20: FederatedAgent.calculate_cci returns a value in [0.40, 0.70] for
\* every sample, and that value is the clamped sample whatever the agent's
\* cycle counter and global model version are.
C20_FlCciRange ==
    fn_call.fn = "fl_calculate_cci" =>
        LET sample == fn_call.drawn[1]
        IN  /\ 4000 <= fn_call.value
            /\ fn_call.value <= 7000
            /\ fn_call.value = IF sample < 4000 THEN 4000
                               ELSE IF sample > 7000 THEN 7000
                               ELSE sample

\* a sample of 0.72 drawn by an agent that has trained three cycles
C20_Witness ==
    /\ fn_call.fn = "fl_calculate_cci"
    /\ fn_fl.epoch = 3
    /\ fn_fl.global_model_version = 3
    /\ fn_call.drawn = <<7200>>
    /\ fn_call.value = 7000

\* C21: in the medical example, when process_patient_case validates the
\* hypothesis as correct against the known outcome, the diagnostic framework
\* that produced the hypothesis (its framework_used) is strengthened by
\* 0.05 * learning_value, capped at 0.95.
C21_CorrectDiagnosisStrengthens ==
    [][(/\ med_pc = "case"
        /\ med_left > 0
        /\ hospitals'[med_idx].case_history.correct =
              hospitals[med_idx].case_history.correct + 1) =>
          \E c \in 1..Len(SyntheticCases) :
             LET h == hospitals[med_idx]
                 hypothesis == GenerateDiagnosticHypothesis(h, SyntheticCases[c])
                 result == ValidateDiagnosis(hypothesis, SyntheticCases[c])
                 used == hypothesis.framework_used
                 raised == h.diagnostic_frameworks[used]
                              + (5 * result.learning_value) \div 100
             IN  /\ result.correct
                 /\ hospitals'[med_idx].diagnostic_frameworks[used] =
                       (IF raised > 95000000 THEN 95000000 ELSE raised)]_vars

\* C22: generate_analysis computes its summary statistics over the records
\* of the last cycle of each scenario: the records it selects are exactly
\* those whose cycle index is num_epochs - 1, for every configured
\* num_epochs >= 1 (read here on the configurations that also have an agent).
C22_AnalysisOverLastCycle ==
    (num_agents >= 1 /\ num_epochs >= 1 /\ pc = "done") =>
        /\ analysis.computed
        /\ analysis.final_epoch =
              SelectSeq(results, LAMBDA r : r.epoch = num_epochs - 1)

\* C23: share_medical_knowledge is called exactly at the loop indices that
\* are positive multiples of 5 (5 and 10, never 0), once each and in order,
\* and every call comes after all hospitals have processed their cases and
\* run develop_epoch for that index.
C23_ShareAtPositiveMultiplesOfFive ==
    LET due == {e \in 0..(med_epoch - 1) : e \in {5, 10}}
    IN  /\ Len(share_calls) = Cardinality(due)
        /\ \A j \in 1..Len(share_calls) :
              LET call == share_calls[j]
              IN  /\ call.epoch = 5 * j
                  /\ \A i \in 1..NumHospitals :
                        /\ call.developed[i] = call.epoch + 1
                        /\ call.cases[i] >= 2 * (call.epoch + 1)

C23_Witness ==
    /\ med_pc = "done"
    /\ Len(share_calls) = 2
    /\ share_calls[1].epoch = 5
    /\ share_calls[2].epoch = 10

\* the calls of the API clients' posting methods, in the order made
ApiCalls ==
    SelectSeq(pub_log, LAMBDA c : c.call \in {"medium.create_post",
                                              "linkedin.create_article_share",
                                              "linkedin.create_text_post"})

\* the calls of the script's two functions, in the order made
ScriptCalls ==
    SelectSeq(pub_log, LAMBDA c : c.call \in {"publish_to_medium", "share_on_linkedin"})

Publishers ==
    {NewPublisher(m, l) : m \in {None, "", "token"}, l \in {None, "", "token"}}

C26_MetricsAtCounterEPlusOne ==
    /\ pc = "metrics" =>
          /\ \A i \in 1..Len(ogi_agents) :
                ogi_agents[i].epoch = epoch + 1 /\ ogi_agents[i].epoch # 0
          /\ \A i \in 1..Len(fl_agents) : fl_agents[i].epoch = epoch + 1
    /\ \A k \in 1..Len(results) :
          LET cycle == results[k].epoch + 1
          IN  /\ \E noise \in MetricNoise :
                    results[k].cci_ogi =
                       Min(OgiCciMax, Max(OgiCciMin, BaseCci + Ln200[cycle + 1] + noise))
              /\ \E noise \in MetricNoise :
                    results[k].mutation_drift_ogi =
                       Max(0, BaseDrift - DriftDecay * cycle) + noise

C26_Witness ==
    /\ pc = "metrics"
    /\ epoch = 1
    /\ Len(results) = 1
    /\ results[1].epoch = 0
    /\ results[1].cci_ogi = BaseCci + Ln200[2]
    /\ \A i \in 1..Len(ogi_agents) : ogi_agents[i].epoch = 2

\* C27: a develop_epoch call on one OGI agent advances that agent and leaves
\* every other OGI agent and every federated agent (counter, ledger,
\* framework mapping, model version) as it was; a train_epoch call on one
\* federated agent advances that agent and leaves every other agent of
\* either variant as it was.
C27_AgentsDevelopIndependently ==
    [][/\ pc = "ogi" =>
             /\ ogi_agents'[idx].epoch = ogi_agents[idx].epoch + 1
             /\ Len(ogi_agents') = Len(ogi_agents)
             /\ \A j \in 1..Len(ogi_agents) : j # idx => ogi_agents'[j] = ogi_agents[j]
             /\ fl_agents' = fl_agents
       /\ pc = "fl" =>
             /\ fl_agents'[idx].epoch = fl_agents[idx].epoch + 1
             /\ Len(fl_agents') = Len(fl_agents)
             /\ \A j \in 1..Len(fl_agents) : j # idx => fl_agents'[j] = fl_agents[j]
             /\ ogi_agents' = ogi_agents]_vars

\* the first agent has developed in a cycle the second has not yet entered,
\* and they hold different framework mappings and ledgers
C27_Witness ==
    /\ pc = "ogi"
    /\ idx = 2
    /\ epoch >= 1
    /\ ogi_agents[1].epoch = epoch + 1
    /\ ogi_agents[2].epoch = epoch
    /\ ogi_agents[1].reasoning_frameworks # ogi_agents[2].reasoning_frameworks
    /\ Len(ogi_agents[1].ledger) = Len(ogi_agents[2].ledger) + 1

\* the framework mappings of every OGI agent of the state: the directly
\* driven agent, the runner's agents and the hospitals
AllFrameworks ==
    <<agent.reasoning_frameworks>>
       \o [i \in 1..Len(ogi_agents) |-> ogi_agents[i].reasoning_frameworks]
       \o [i \in 1..Len(hospitals) |-> hospitals[i].reasoning_frameworks]

\* fw2 holds every key of fw1 with a value at least as high
FrameworksGrow(fw1, fw2) ==
    \A k \in DOMAIN fw1 : k \in DOMAIN fw2 /\ fw2[k] >= fw1[k]

\* C28: in every reachable state the keys of an OGI agent's
\* reasoning_frameworks are among pattern_recognition, causal_inference and
\* uncertainty_handling and every value is at least 0.5; and no step removes
\* a key or lowers a value of an agent (the runner's agents are new objects
\* at the start of a scenario).
C28_FrameworksOnlyGrow ==
    /\ [](\A i \in 1..Len(AllFrameworks) :
            /\ DOMAIN AllFrameworks[i] \subseteq
                  {"pattern_recognition", "causal_inference", "uncertainty_handling"}
            /\ \A k \in DOMAIN AllFrameworks[i] : AllFrameworks[i][k] >= 5000)
    /\ [][/\ FrameworksGrow(agent.reasoning_frameworks, agent'.reasoning_frameworks)
          /\ pc # "start" =>
                \A i \in 1..Len(ogi_agents) :
                   FrameworksGrow(ogi_agents[i].reasoning_frameworks,
                                  ogi_agents'[i].reasoning_frameworks)
          /\ \A i \in 1..Len(hospitals) :
                FrameworksGrow(hospitals[i].reasoning_frameworks,
                               hospitals'[i].reasoning_frameworks)]_vars

\* all three frameworks present and raised, after a failed validation too
C28_Witness ==
    /\ DOMAIN agent.reasoning_frameworks =
          {"pattern_recognition", "causal_inference", "uncertainty_handling"}
    /\ agent.reasoning_frameworks["pattern_recognition"] >= 8000
    /\ agent.reasoning_frameworks["causal_inference"] > InitialStrength
    /\ FailedIn(agent.ledger) = 1

====
